---- MODULE Spec2Model ----
(***************************************************************************)
(* State-machine model of readSIP256file, the reader of SIP256 RES files   *)
(* in python/pygimli/physics/SIP/importexport.py.                          *)
(*                                                                         *)
(* The function makes two passes.  The header pass reads the file line by  *)
(* line, fills the dictionary `header` and, once a data-section marker has *)
(* been seen, buffers every further line in LINE.  The data pass walks     *)
(* LINE and regroups it into DATA / AB / RU.  Lines are modelled as the    *)
(* character strings the code sees (with their trailing newline), and the  *)
(* string operations of the code (slicing, rfind, find, replace, split,    *)
(* int, float, re.sub) are modelled character by character.                *)
(***************************************************************************)
EXTENDS Integers, Sequences, FiniteSets, TLC

(***************************************************************************)
(* Bounds of the model.                                                    *)
(***************************************************************************)
\* number of lines of a file in the specification Spec
MaxLines == 4
\* number of buffered data-section lines in the specification SpecData
MaxDataLines == 4
\* number of tokens of the sample row in the specification SpecRepair
MaxRowTokens == 6
\* number of lines of a file in the specification SpecFuchs
MaxFuchsLines == 4
\* number of readline() calls at the end of the file that are followed
MaxEofReads == 2

(***************************************************************************)
(* Python string and list primitives.  Indices of the Python operations    *)
(* are 0-based, those of TLA+ are 1-based.                                 *)
(***************************************************************************)
Min(a, b) == IF a < b THEN a ELSE b
Max(a, b) == IF a > b THEN a ELSE b

\* s[i] for the 1-based position i
Char(s, i) == SubSeq(s, i, i)

\* s[:n] for n >= 0
SliceTo(s, n) == SubSeq(s, 1, Min(n, Len(s)))

\* s[n:] for n >= 0
SliceFrom(s, n) == SubSeq(s, n + 1, Len(s))

\* s[:-n] for n > 0
SliceToNeg(s, n) == SubSeq(s, 1, Len(s) - n)

\* s[-n:] for n > 0
SliceFromNeg(s, n) == SubSeq(s, Max(Len(s) - n, 0) + 1, Len(s))

RECURSIVE RFindFrom(_, _, _)
RFindFrom(s, ch, i) ==
    IF i = 0 THEN -1
    ELSE IF Char(s, i) = ch THEN i - 1
    ELSE RFindFrom(s, ch, i - 1)

\* s.rfind(ch) for a single character ch: highest 0-based index, or -1
RFind(s, ch) == RFindFrom(s, ch, Len(s))

RECURSIVE FindFrom(_, _, _)
FindFrom(s, sub, i) ==
    IF i + Len(sub) - 1 > Len(s) THEN -1
    ELSE IF SubSeq(s, i, i + Len(sub) - 1) = sub THEN i - 1
    ELSE FindFrom(s, sub, i + 1)

\* s.find(sub): lowest 0-based index, or -1
Find(s, sub) == FindFrom(s, sub, 1)

\* sub in s
Contains(s, sub) == Find(s, sub) >= 0

RECURSIVE RFindSubFrom(_, _, _)
RFindSubFrom(s, sub, i) ==
    IF i < 1 THEN -1
    ELSE IF SubSeq(s, i, i + Len(sub) - 1) = sub THEN i - 1
    ELSE RFindSubFrom(s, sub, i - 1)

\* s.rfind(sub): highest 0-based index, or -1
RFindSub(s, sub) == RFindSubFrom(s, sub, Len(s) - Len(sub) + 1)

RECURSIVE SplitOn(_, _)
\* s.split(sep) for an explicit separator: empty fields are kept
SplitOn(s, sep) ==
    LET p == Find(s, sep)
    IN  IF p < 0 THEN <<s>>
        ELSE <<SliceTo(s, p)>> \o SplitOn(SliceFrom(s, p + Len(sep)), sep)

RECURSIVE ReplaceFrom(_, _, _, _)
ReplaceFrom(s, a, b, i) ==
    IF i > Len(s) THEN ""
    ELSE (IF Char(s, i) = a THEN b ELSE Char(s, i)) \o ReplaceFrom(s, a, b, i + 1)

\* s.replace(a, b) for a single character a
Replace(s, a, b) == ReplaceFrom(s, a, b, 1)

Whitespace == {" ", "\t", "\n", "\r"}

RECURSIVE SplitFrom(_, _, _, _)
SplitFrom(s, i, cur, acc) ==
    IF i > Len(s)
    THEN (IF cur = "" THEN acc ELSE Append(acc, cur))
    ELSE IF Char(s, i) \in Whitespace
         THEN SplitFrom(s, i + 1, "", IF cur = "" THEN acc ELSE Append(acc, cur))
         ELSE SplitFrom(s, i + 1, cur \o Char(s, i), acc)

\* s.split(): the maximal runs of non-whitespace characters, in order
Split(s) == SplitFrom(s, 1, "", <<>>)

RECURSIVE Strip(_)
\* s.strip()
Strip(s) ==
    IF s = "" THEN s
    ELSE IF Char(s, 1) \in Whitespace THEN Strip(SliceFrom(s, 1))
    ELSE IF Char(s, Len(s)) \in Whitespace THEN Strip(SliceToNeg(s, 1))
    ELSE s

(***************************************************************************)
(* Numbers.  int(s) and float(s) on decimal literals: optional sign,       *)
(* digits, and for float at most one decimal point.  A float is kept as    *)
(* mantissa m and number e of fractional digits (value m / 10^e) with the  *)
(* trailing zeros of the fraction removed, so that "1.0", "1" and "1.00"   *)
(* parse to the same number.                                               *)
(***************************************************************************)
DigitChars == {"0", "1", "2", "3", "4", "5", "6", "7", "8", "9"}

DigitVal(c) ==
    CASE c = "0" -> 0 [] c = "1" -> 1 [] c = "2" -> 2 [] c = "3" -> 3
      [] c = "4" -> 4 [] c = "5" -> 5 [] c = "6" -> 6 [] c = "7" -> 7
      [] c = "8" -> 8 [] c = "9" -> 9

AllDigits(s) == \A i \in 1..Len(s) : Char(s, i) \in DigitChars

RECURSIVE DigitsVal(_)
DigitsVal(s) ==
    IF s = "" THEN 0
    ELSE 10 * DigitsVal(SliceToNeg(s, 1)) + DigitVal(Char(s, Len(s)))

HasSign(s) == s # "" /\ Char(s, 1) \in {"+", "-"}
Unsigned(s) == IF HasSign(s) THEN SliceFrom(s, 1) ELSE s
SignOf(s) == IF s # "" /\ Char(s, 1) = "-" THEN -1 ELSE 1

\* int(s): [ok, v]; ok = FALSE stands for ValueError
ParseInt(s) ==
    LET u == Unsigned(Strip(s))
    IN  IF u # "" /\ AllDigits(u)
        THEN [ok |-> TRUE, v |-> SignOf(Strip(s)) * DigitsVal(u)]
        ELSE [ok |-> FALSE, v |-> 0]

RECURSIVE Normalise(_, _)
Normalise(m, e) ==
    IF e > 0 /\ m % 10 = 0 THEN Normalise(m \div 10, e - 1)
    ELSE [m |-> m, e |-> e]

\* float(s): [ok, v]; ok = FALSE stands for ValueError
ParseFloat(s) ==
    LET u  == Unsigned(Strip(s))
        p  == Find(u, ".")
        ip == IF p < 0 THEN u ELSE SliceTo(u, p)
        fp == IF p < 0 THEN "" ELSE SliceFrom(u, p + 1)
    IN  IF AllDigits(ip) /\ AllDigits(fp) /\ Len(ip) + Len(fp) > 0
        THEN [ok |-> TRUE,
              v  |-> Normalise(SignOf(Strip(s)) * DigitsVal(ip \o fp), Len(fp))]
        ELSE [ok |-> FALSE, v |-> [m |-> 0, e |-> 0]]

\* np.array(tokens, dtype=float) of a list of strings: [ok, v]
ParseFloats(toks) ==
    IF \A i \in 1..Len(toks) : ParseFloat(toks[i]).ok
    THEN [ok |-> TRUE, v |-> [i \in 1..Len(toks) |-> ParseFloat(toks[i]).v]]
    ELSE [ok |-> FALSE, v |-> <<>>]

(***************************************************************************)
(* Values.  A header value is an int, a float, an open Python list of rows *)
(* (kind "list") or a numpy array (kind "array", with its number ndim of   *)
(* dimensions).                                                            *)
(***************************************************************************)
IntValue(n) == [kind |-> "int", val |-> n]
FloatValue(x) == [kind |-> "float", val |-> x]
ListValue(rows) == [kind |-> "list", val |-> rows]
ArrayValue(n, v) == [kind |-> "array", ndim |-> n, val |-> v]

SameWidth(rows) == \A i, j \in 1..Len(rows) : Len(rows[i]) = Len(rows[j])

\* np.array(v): the set of outcomes [ok, v].  A list of rows of unequal
\* width gives a 1-d object array with older numpy and a ValueError with
\* newer numpy; both outcomes are kept.
NpArray(v) ==
    IF v.kind = "list"
    THEN IF Len(v.val) = 0 THEN {[ok |-> TRUE, v |-> ArrayValue(1, <<>>)]}
         ELSE IF SameWidth(v.val) THEN {[ok |-> TRUE, v |-> ArrayValue(2, v.val)]}
         ELSE {[ok |-> TRUE, v |-> ArrayValue(1, v.val)],
               [ok |-> FALSE, v |-> v]}
    ELSE IF v.kind = "array" THEN {[ok |-> TRUE, v |-> v]}
    ELSE {[ok |-> TRUE, v |-> ArrayValue(0, v)]}

\* d[k] = v on a dictionary d
SetKey(d, k, v) == [x \in DOMAIN d \cup {k} |-> IF x = k THEN v ELSE d[x]]

EmptyDict == [x \in {} |-> 0]

(***************************************************************************)
(* State of one call of readSIP256file.                                    *)
(***************************************************************************)
VARIABLES
    pc,          \* "header": in the loop over the file; "data": in the loop
                 \* over LINE; "returned"; "raised"
    exc,         \* the exception that ended the call, "" if none
    line,        \* the loop variable of the header pass: the line just read
    f,           \* the file object: the lines it has supplied so far
    activeBlock, \* name of the open block, "" if none
    header,      \* dictionary key -> value
    LINE,        \* buffered raw lines of the data section
    dataAct,     \* data-capture mode
    idx,         \* 1-based position of the data pass in LINE
    DATA, Data, data, AB, RU, ru,
    rdno,        \* current reading number
    rdnoBound,   \* FALSE while the local rdno has not been assigned
    sline,       \* the token list of the data line just processed
    \* state of one call of readRadicSIPFuchs (it shares pc, exc, f, line)
    readSecond, delLast,
    fr, rhoa, phi, drhoa, dphi,
    eofReads     \* number of f.readline() calls that returned ''

headerVars == <<activeBlock, header, dataAct>>
dataVars == <<idx, DATA, Data, data, AB, RU, ru, rdno, rdnoBound, sline>>
fuchsVars == <<readSecond, delLast, fr, rhoa, phi, drhoa, dphi, eofReads>>
vars == <<pc, exc, line, f, activeBlock, header, LINE, dataAct,
          idx, DATA, Data, data, AB, RU, ru, rdno, rdnoBound, sline,
          readSecond, delLast, fr, rhoa, phi, drhoa, dphi, eofReads>>

(***************************************************************************)
(* Header pass, lines 207-241.                                             *)
(***************************************************************************)
\* token = line[1:line.rfind(']')].replace(' ', '_')
Token(l) ==
    LET r == RFind(l, "]")
    IN  Replace(SubSeq(l, 2, IF r < 0 THEN Len(l) + r ELSE r), " ", "_")

\* the two tests that switch data-capture mode on
IsDataMarker(token) ==
    \/ Replace(token, " ", "_") = "Messdaten_SIP256"
    \/ Contains(token, "Messdaten")

IsEnd(token) == SliceTo(token, 3) = "End"

IsBegin(token) == SliceTo(token, 5) = "Begin"

\* token[5:]: the separator after 'Begin' kept in the name
BlockNameKeepsSeparator(token) == SliceFrom(token, 5)

\* activeBlock = token[6:]
BlockName(token) == SliceFrom(token, 6)

\* value = line[line.rfind(']') + 1:]
ScalarText(l) == SliceFrom(l, RFind(l, "]") + 1)

\* float(value) if '.' in value else int(value): [ok, v]
ParseScalar(value) ==
    IF Contains(value, ".")
    THEN [ok |-> ParseFloat(value).ok, v |-> FloatValue(ParseFloat(value).v)]
    ELSE [ok |-> ParseInt(value).ok, v |-> IntValue(ParseInt(value).v)]

Raise(e) == pc' = "raised" /\ exc' = e

\* line 221-222: header[activeBlock] = np.array(header[activeBlock])
EndBlock ==
    IF activeBlock \notin DOMAIN header
    THEN Raise("KeyError") /\ UNCHANGED headerVars
    ELSE \E r \in NpArray(header[activeBlock]) :
            IF r.ok
            THEN /\ header' = SetKey(header, activeBlock, r.v)
                 /\ activeBlock' = ""
                 /\ UNCHANGED <<pc, exc, dataAct>>
            ELSE Raise("ValueError") /\ UNCHANGED headerVars

\* line 224-225
BeginBlock(token) ==
    /\ activeBlock' = BlockName(token)
    /\ header' = SetKey(header, BlockName(token), ListValue(<<>>))
    /\ UNCHANGED <<pc, exc, dataAct>>

\* the conversion error leaves the call
ScalarEntryAborts(l, token) ==
    LET num == ParseScalar(ScalarText(l))
    IN  IF num.ok
        THEN /\ header' = SetKey(header, token, num.v)
             /\ UNCHANGED <<pc, exc, dataAct, activeBlock>>
        ELSE Raise("ValueError") /\ UNCHANGED headerVars

\* line 227-236: a failed conversion is caught and printed
ScalarEntry(l, token) ==
    LET num == ParseScalar(ScalarText(l))
    IN  /\ header' = IF num.ok THEN SetKey(header, token, num.v) ELSE header
        /\ UNCHANGED <<pc, exc, dataAct, activeBlock>>

\* line 239-241
BlockRow(l) ==
    IF activeBlock # ""
    THEN LET nums == ParseFloats(Split(l))
         IN  IF ~nums.ok THEN Raise("ValueError") /\ UNCHANGED headerVars
             ELSE IF header[activeBlock].kind # "list"
             THEN Raise("AttributeError") /\ UNCHANGED headerVars
             ELSE /\ header' = SetKey(header, activeBlock,
                                  ListValue(Append(header[activeBlock].val, nums.v)))
                  /\ UNCHANGED <<pc, exc, dataAct, activeBlock>>
    ELSE UNCHANGED <<pc, exc, headerVars>>

\* line 212-241: one line of the file while data capture is off
HeaderLine(l) ==
    IF Char(l, 1) = "["
    THEN IF IsDataMarker(Token(l))
         THEN dataAct' = TRUE /\ UNCHANGED <<pc, exc, header, activeBlock>>
         ELSE IF IsEnd(Token(l)) THEN EndBlock
         ELSE IF IsBegin(Token(l)) THEN BeginBlock(Token(l))
         ELSE ScalarEntry(l, Token(l))
    ELSE BlockRow(l)

\* the loop body with `if len(line)` in place of `elif len(line)`: a buffered
\* line is also handled as a header line
ReadLineNoLatch(lines, limit) ==
    /\ pc = "header"
    /\ Len(f) < limit
    /\ \E l \in lines :
          /\ line' = l
          /\ f' = Append(f, l)
          /\ LINE' = IF dataAct THEN Append(LINE, l) ELSE LINE
          /\ IF Len(l) > 0 THEN HeaderLine(l) ELSE UNCHANGED <<pc, exc, headerVars>>
    /\ UNCHANGED dataVars
    /\ UNCHANGED fuchsVars

\* one iteration of `for line in f`, the file supplying a line of `lines`;
\* `limit` bounds the number of lines of the file
ReadLine(lines, limit) ==
    /\ pc = "header"
    /\ Len(f) < limit
    /\ \E l \in lines :
          /\ line' = l
          /\ f' = Append(f, l)
          /\ IF dataAct
             THEN LINE' = Append(LINE, l) /\ UNCHANGED <<pc, exc, headerVars>>
             ELSE IF Len(l) > 0
             THEN LINE' = LINE /\ HeaderLine(l)
             ELSE UNCHANGED <<LINE, pc, exc, headerVars>>
    /\ UNCHANGED dataVars
    /\ UNCHANGED fuchsVars

(***************************************************************************)
(* Field repair of a sample row, lines 270-281.                            *)
(***************************************************************************)
\* range(6): the columns the repair loop visits
RepairColumns == 6
\* a token longer than this is split (line 274)
LongToken == 15
\* characters kept in the second part for column 0 (lines 276-277)
FirstColWidth == 15
\* characters kept in the second part for the other columns (lines 279-280)
OtherColWidth == 10
\* fields of a sample row (line 282)
RowFields == 5

\* re.search('[0-9]-', line)
DigitMinus(l) ==
    \E i \in 1..(Len(l) - 1) : Char(l, i) \in DigitChars /\ Char(l, i + 1) = "-"

RECURSIVE SubDigitMinusFrom(_, _)
SubDigitMinusFrom(l, i) ==
    IF i > Len(l) THEN ""
    ELSE IF i < Len(l) /\ Char(l, i) \in DigitChars /\ Char(l, i + 1) = "-"
    THEN "5 -" \o SubDigitMinusFrom(l, i + 2)
    ELSE Char(l, i) \o SubDigitMinusFrom(l, i + 1)

\* re.sub('[0-9]-', '5 -', line): non-overlapping matches, left to right
SubDigitMinus(l) == SubDigitMinusFrom(l, 1)

\* line 270-271
MinusRepair(l, toks) == IF DigitMinus(l) THEN Split(SubDigitMinus(l)) ELSE toks

\* line 275-281: the token at the 0-based column c replaced by its two parts
SplitToken(toks, c) ==
    LET tok   == toks[c + 1]
        w     == IF c = 0 THEN FirstColWidth ELSE OtherColWidth
        part1 == SliceToNeg(tok, w)
        part2 == SliceFromNeg(tok, w)
    IN  SliceTo(toks, c) \o <<part1>> \o <<part2>> \o SliceFrom(toks, c + 1)

RECURSIVE LengthRepair(_, _)
\* line 273-281, from column c on: [ok, toks]; ok = FALSE stands for the
\* IndexError of toks[c] on a row that is too short
LengthRepair(toks, c) ==
    IF c >= RepairColumns THEN [ok |-> TRUE, sline |-> toks]
    ELSE IF c >= Len(toks) THEN [ok |-> FALSE, sline |-> toks]
    ELSE IF Len(toks[c + 1]) > LongToken
    THEN LengthRepair(SplitToken(toks, c), c + 1)
    ELSE LengthRepair(toks, c + 1)

\* line 270-281: the repaired token list of the raw line l
FieldRepair(l) == LengthRepair(MinusRepair(l, Split(l)), 0)

(***************************************************************************)
(* Data pass, lines 245-289.  A matrix np.array(data) is kept as the       *)
(* sequence of its rows; np.array([]) is the empty sequence.               *)
(***************************************************************************)
IsReading(l) == Find(l, "Reading") = 0

IsRemoteUnit(l) == Find(l, "Remote Unit") = 0

IsFreq(l) == Find(l, "Freq") >= 0

\* toks[i] converted by int(): [ok, exc, v]
IntAt(toks, i) ==
    IF i >= Len(toks) THEN [ok |-> FALSE, exc |-> "IndexError", v |-> 0]
    ELSE [ok |-> ParseInt(toks[i + 1]).ok, exc |-> "ValueError",
          v |-> ParseInt(toks[i + 1]).v]

\* line 255: the reading's unit list is closed
FlushesReading(n, units) == n > 1 /\ units # <<>>

\* a pair is recorded for every Reading line, whatever its number
RecordsPairAlways(n) == TRUE

\* line 250: `if rdno:`
RecordsPair(n) == n # 0

\* the pending units are published but the accumulator is kept
FlushUnitsNoReset ==
    /\ RU' = IF ru # <<>> THEN Append(RU, ru) ELSE RU
    /\ ru' = ru

\* line 252-254: `if ru: RU.append(ru); ru = []`
FlushUnits ==
    /\ RU' = IF ru # <<>> THEN Append(RU, ru) ELSE RU
    /\ ru' = <<>>

\* line 249-258
ReadingLine(toks) ==
    LET no == IntAt(toks, 1)
        a  == IntAt(toks, 4)
        b  == IntAt(toks, 6)
    IN  IF ~no.ok THEN Raise(no.exc) /\ UNCHANGED <<DATA, Data, data, AB, RU, ru, rdno, rdnoBound>>
        ELSE IF RecordsPair(no.v) /\ ~a.ok
        THEN Raise(a.exc) /\ UNCHANGED <<DATA, Data, data, AB, RU, ru, rdno, rdnoBound>>
        ELSE IF RecordsPair(no.v) /\ ~b.ok
        THEN Raise(b.exc) /\ UNCHANGED <<DATA, Data, data, AB, RU, ru, rdno, rdnoBound>>
        ELSE /\ rdno' = no.v
             /\ rdnoBound' = TRUE
             /\ AB' = IF RecordsPair(no.v) THEN Append(AB, <<a.v, b.v>>) ELSE AB
             /\ FlushUnits
             /\ IF FlushesReading(no.v, Data)
                THEN /\ DATA' = Append(DATA, Append(Data, data))
                     /\ Data' = <<>>
                     /\ data' = <<>>
                ELSE UNCHANGED <<DATA, Data, data>>
             /\ UNCHANGED <<pc, exc>>

\* line 263-266
RemoteUnitLine(toks) ==
    LET id == IntAt(toks, 2)
    IN  IF ~id.ok THEN Raise(id.exc) /\ UNCHANGED <<DATA, Data, data, AB, RU, ru, rdno, rdnoBound>>
        ELSE /\ ru' = Append(ru, id.v)
             /\ IF data # <<>>
                THEN Data' = Append(Data, data) /\ data' = <<>>
                ELSE UNCHANGED <<Data, data>>
             /\ UNCHANGED <<pc, exc, DATA, AB, RU, rdno, rdnoBound>>

\* line 269-282
SampleLine(l, toks) ==
    IF Len(toks) > 1
    THEN IF ~rdnoBound
         THEN Raise("UnboundLocalError") /\ UNCHANGED <<DATA, Data, data, AB, RU, ru, rdno, rdnoBound>>
         ELSE IF rdno > 0
         THEN LET fixed == FieldRepair(l)
                  row   == ParseFloats(SliceTo(fixed.sline, RowFields))
              IN  IF ~fixed.ok
                  THEN Raise("IndexError") /\ UNCHANGED <<DATA, Data, data, AB, RU, ru, rdno, rdnoBound>>
                  ELSE IF ~row.ok
                  THEN Raise("ValueError") /\ UNCHANGED <<DATA, Data, data, AB, RU, ru, rdno, rdnoBound>>
                  ELSE /\ data' = Append(data, row.v)
                       /\ UNCHANGED <<pc, exc, DATA, Data, AB, RU, ru, rdno, rdnoBound>>
         ELSE UNCHANGED <<pc, exc, DATA, Data, data, AB, RU, ru, rdno, rdnoBound>>
    ELSE UNCHANGED <<pc, exc, DATA, Data, data, AB, RU, ru, rdno, rdnoBound>>

\* the end of `for line in f` and line 245
EndOfFile ==
    /\ pc = "header"
    /\ pc' = "data"
    /\ idx' = 1
    /\ DATA' = <<>> /\ Data' = <<>> /\ data' = <<>>
    /\ AB' = <<>> /\ RU' = <<>> /\ ru' = <<>>
    /\ UNCHANGED <<exc, line, f, headerVars, LINE, rdno, rdnoBound, sline>>
    /\ UNCHANGED fuchsVars

\* line 247 and 270-281: sline once the line l has been handled, the
\* repaired token list if l is taken as a sample row
TokensOf(l) ==
    IF /\ ~IsReading(l) /\ ~IsRemoteUnit(l) /\ ~IsFreq(l)
       /\ Len(Split(l)) > 1 /\ rdnoBound /\ rdno > 0
    THEN FieldRepair(l).sline
    ELSE Split(l)

\* line 246-282: one iteration of `for line in LINE`
ProcessLine ==
    /\ pc = "data"
    /\ idx <= Len(LINE)
    /\ idx' = idx + 1
    /\ sline' = TokensOf(LINE[idx])
    /\ IF IsReading(LINE[idx]) THEN ReadingLine(Split(LINE[idx]))
       ELSE IF IsRemoteUnit(LINE[idx]) THEN RemoteUnitLine(Split(LINE[idx]))
       ELSE IF IsFreq(LINE[idx])
       THEN UNCHANGED <<pc, exc, DATA, Data, data, AB, RU, ru, rdno, rdnoBound>>
       ELSE SampleLine(LINE[idx], Split(LINE[idx]))
    /\ UNCHANGED <<line, f, headerVars, LINE>>
    /\ UNCHANGED fuchsVars

\* line 284-289: the loop over LINE is over
Return ==
    /\ pc = "data"
    /\ idx > Len(LINE)
    /\ Data' = Append(Data, data)
    /\ DATA' = Append(DATA, Append(Data, data))
    /\ pc' = "returned"
    /\ UNCHANGED <<exc, line, f, headerVars, LINE, idx, data, AB, RU, ru, rdno, rdnoBound, sline>>
    /\ UNCHANGED fuchsVars

(***************************************************************************)
(* The files read.                                                         *)
(***************************************************************************)
MarkerLine == "[Messdaten SIP256]\n"

\* lines of the header section, and a few of the data section
HeaderLines ==
    { "[Begin Setup]\n", "[End Setup]\n", "1.0 2.0\n", "3.0\n",
      "[Begin Layout 1]\n", "[Begin]\n", "[Begin Messdaten]\n",
      "[Key] 12\n", "[Key] 1.5\n", "[Key] x\n", "[] 5\n",
      MarkerLine }

\* lines of the data section
DataLines ==
    { "Reading 1 : A 3 B 5\n", "Reading 2 : A 4 B 6\n", "Reading 0 : A 1 B 2\n",
      "Remote Unit 1\n", "Remote Unit 2\n",
      "Freq Rho Phi dRho dPhi\n",
      "10.0 1.0 2.0 3.0 4.0\n", "10.0 1.0 2.0 3.0 4.0 0.5\n",
      "1.0 2.0\n", "\n" }

\* the variables of readRadicSIPFuchs while that function is not running
FuchsIdle ==
    /\ readSecond = FALSE /\ delLast = FALSE
    /\ fr = <<>> /\ rhoa = <<>> /\ phi = <<>> /\ drhoa = <<>> /\ dphi = <<>>
    /\ eofReads = 0

Init ==
    /\ pc = "header" /\ exc = "" /\ line = "" /\ f = <<>>
    /\ activeBlock = "" /\ header = EmptyDict /\ LINE = <<>> /\ dataAct = FALSE
    /\ idx = 0
    /\ DATA = <<>> /\ Data = <<>> /\ data = <<>>
    /\ AB = <<>> /\ RU = <<>> /\ ru = <<>>
    /\ rdno = 0 /\ rdnoBound = FALSE /\ sline = <<>>
    /\ FuchsIdle

Next ==
    \/ ReadLine(HeaderLines, MaxLines)
    \/ EndOfFile
    \/ ProcessLine
    \/ Return

\* the whole call on files of header lines
Spec == Init /\ [][Next]_vars

\* the call once the marker line of the data section has been read
InitData ==
    /\ pc = "header" /\ exc = "" /\ line = MarkerLine /\ f = <<MarkerLine>>
    /\ activeBlock = "" /\ header = EmptyDict /\ LINE = <<>> /\ dataAct = TRUE
    /\ idx = 0
    /\ DATA = <<>> /\ Data = <<>> /\ data = <<>>
    /\ AB = <<>> /\ RU = <<>> /\ ru = <<>>
    /\ rdno = 0 /\ rdnoBound = FALSE /\ sline = <<>>
    /\ FuchsIdle

NextData ==
    \/ ReadLine(DataLines, MaxDataLines + 1)
    \/ EndOfFile
    \/ ProcessLine
    \/ Return

\* the call on files whose first line is the marker, followed by data lines
SpecData == InitData /\ [][NextData]_vars

(***************************************************************************)
(* Properties.  The expected values of the concrete lines are written down *)
(* by hand (what a reader of the file sees), independently of the          *)
(* operators that model the code.                                          *)
(***************************************************************************)
Finished == pc \in {"returned", "raised"}

Last(s) == s[Len(s)]

\* the number written on a line "Reading n ..." of DataLines
ReadingNumber(l) ==
    CASE l = "Reading 1 : A 3 B 5\n" -> 1
      [] l = "Reading 2 : A 4 B 6\n" -> 2
      [] l = "Reading 0 : A 1 B 2\n" -> 0

\* the electrodes A and B written on a Reading line of DataLines
ReadingPair(l) ==
    CASE l = "Reading 1 : A 3 B 5\n" -> <<3, 5>>
      [] l = "Reading 2 : A 4 B 6\n" -> <<4, 6>>
      [] l = "Reading 0 : A 1 B 2\n" -> <<1, 2>>

\* the unit id written on a 'Remote Unit' line of DataLines
UnitId(l) ==
    CASE l = "Remote Unit 1\n" -> 1
      [] l = "Remote Unit 2\n" -> 2

ReadingLines == {"Reading 1 : A 3 B 5\n", "Reading 2 : A 4 B 6\n", "Reading 0 : A 1 B 2\n"}
UnitLines == {"Remote Unit 1\n", "Remote Unit 2\n"}

\* the well-separated numeric sample rows of DataLines with at least 5 tokens
GoodRows == {"10.0 1.0 2.0 3.0 4.0\n", "10.0 1.0 2.0 3.0 4.0 0.5\n"}

\* the SampleRow (10.0, 1.0, 2.0, 3.0, 4.0) both rows of GoodRows stand for
GoodRowValue ==
    << [m |-> 10, e |-> 0], [m |-> 1, e |-> 0], [m |-> 2, e |-> 0],
       [m |-> 3, e |-> 0], [m |-> 4, e |-> 0] >>

\* position in LINE of reading j's line, of its unit u's line and of that
\* unit's row k, in a section of readings with U units of K rows each
ReadingPos(j, U, K) == (j - 1) * (1 + U * (1 + K)) + 1
UnitPos(j, u, U, K) == ReadingPos(j, U, K) + 1 + (u - 1) * (1 + K)
RowPos(j, u, k, U, K) == UnitPos(j, u, U, K) + k

\* LINE is R readings numbered 1..R, each of U 'Remote Unit' lines, each
\* followed by K sample rows
WellFormedSection(R, U, K) ==
    /\ Len(LINE) = R * (1 + U * (1 + K))
    /\ \A j \in 1..R :
          /\ LINE[ReadingPos(j, U, K)] \in ReadingLines
          /\ ReadingNumber(LINE[ReadingPos(j, U, K)]) = j
          /\ \A u \in 1..U :
                /\ LINE[UnitPos(j, u, U, K)] \in UnitLines
                /\ \A k \in 1..K : LINE[RowPos(j, u, k, U, K)] \in GoodRows

(***************************************************************************)
(* Sample rows for the field repair: every row of 2..MaxRowTokens tokens   *)
(* drawn from a short token, an 11-character token, a 16-character token   *)
(* and a token in which a minus sign follows a digit.                      *)
(***************************************************************************)
RepairTokens == {"1.5", "00000007.25", "0000000000007.25", "1.2-3.5"}

RECURSIVE JoinTokens(_)
\* the tokens separated by single blanks
JoinTokens(toks) ==
    IF Len(toks) = 0 THEN ""
    ELSE IF Len(toks) = 1 THEN toks[1]
    ELSE toks[1] \o " " \o JoinTokens(Tail(toks))

\* the raw line of a row of tokens
RowLine(toks) == JoinTokens(toks) \o "\n"

RepairRows ==
    {RowLine(toks) : toks \in UNION {[1..n -> RepairTokens] : n \in 2..MaxRowTokens}}

\* the call once the marker, a line 'Reading 1' and one sample row have been
\* read and buffered
InitRepair ==
    \E row \in RepairRows :
        /\ pc = "header" /\ exc = "" /\ line = row
        /\ f = <<MarkerLine, "Reading 1 : A 3 B 5\n", row>>
        /\ activeBlock = "" /\ header = EmptyDict /\ dataAct = TRUE
        /\ LINE = <<"Reading 1 : A 3 B 5\n", row>>
        /\ idx = 0
        /\ DATA = <<>> /\ Data = <<>> /\ data = <<>>
        /\ AB = <<>> /\ RU = <<>> /\ ru = <<>>
        /\ rdno = 0 /\ rdnoBound = FALSE /\ sline = <<>>
        /\ FuchsIdle

NextRepair ==
    \/ EndOfFile
    \/ ProcessLine
    \/ Return

\* the data pass over one reading with one sample row
SpecRepair == InitRepair /\ [][NextRepair]_vars

(***************************************************************************)
(* readRadicSIPFuchs, lines 134-172.  pc is "skip" before line 135,        *)
(* "seek1" in the loop of lines 141-144, "seek2" in the loop of lines      *)
(* 147-149, "rows" in the loop of lines 151-161 and "close" at line 163.   *)
(* f is the history of the lines read; eofReads counts the readline()      *)
(* calls that found the file exhausted and returned ''.  Phases are kept   *)
(* in degrees: the factor pi / 180 of lines 159 and 161 is not applied.    *)
(***************************************************************************)
FuchsLines ==
    {"SIP Fuchs\n", "Freq\tRho\tPhi\tdRho\tdPhi\n", "1.0\t2.0\t3.0\t0.1\t0.2\n", "\n"}

\* f.readline() returns l: a further line of the file, or '' at its end
Readline(l) ==
    IF l = ""
    THEN /\ eofReads < MaxEofReads
         /\ eofReads' = eofReads + 1
         /\ f' = f
    ELSE /\ eofReads = 0
         /\ Len(f) < MaxFuchsLines
         /\ f' = Append(f, l)
         /\ eofReads' = eofReads

sip256Vars == <<headerVars, LINE, dataVars>>

\* line 135
SkipFirst ==
    /\ pc = "skip"
    /\ \E l \in FuchsLines \cup {""} :
          /\ Readline(l)
          /\ line' = l
    /\ pc' = "seek1"
    /\ UNCHANGED <<exc, readSecond, delLast, fr, rhoa, phi, drhoa, dphi>>
    /\ UNCHANGED sip256Vars

\* line 141-144
SeekFreq ==
    /\ pc = "seek1"
    /\ \E l \in FuchsLines \cup {""} :
          /\ Readline(l)
          /\ line' = l
          /\ pc' = IF RFindSub(l, "Freq") > -1
                   THEN IF readSecond THEN "seek2" ELSE "rows"
                   ELSE "seek1"
    /\ UNCHANGED <<exc, readSecond, delLast, fr, rhoa, phi, drhoa, dphi>>
    /\ UNCHANGED sip256Vars

\* line 147-149
SeekSecond ==
    /\ pc = "seek2"
    /\ \E l \in FuchsLines \cup {""} :
          /\ Readline(l)
          /\ pc' = IF RFindSub(l, "Freq") > -1 THEN "rows" ELSE "seek2"
    /\ UNCHANGED <<exc, line, readSecond, delLast, fr, rhoa, phi, drhoa, dphi>>
    /\ UNCHANGED sip256Vars

\* -x
Neg(x) == [m |-> 0 - x.m, e |-> x.e]

\* line 151-161: a list is appended to if every conversion before its
\* append succeeded
ReadRow ==
    /\ pc = "rows"
    /\ \E l \in FuchsLines \cup {""} :
          /\ Readline(l)
          /\ line' = l
          /\ LET b == SplitOn(l, "\t")
                 x == [i \in 1..5 |-> ParseFloat(b[i])]
                 ok == [i \in 0..5 |-> \A j \in 1..i : x[j].ok]
             IN  IF Len(b) < 5
                 THEN pc' = "close" /\ UNCHANGED <<exc, fr, rhoa, phi, drhoa, dphi>>
                 ELSE /\ fr' = IF ok[1] THEN Append(fr, x[1].v) ELSE fr
                      /\ rhoa' = IF ok[2] THEN Append(rhoa, x[2].v) ELSE rhoa
                      /\ phi' = IF ok[3] THEN Append(phi, Neg(x[3].v)) ELSE phi
                      /\ drhoa' = IF ok[4] THEN Append(drhoa, x[4].v) ELSE drhoa
                      /\ dphi' = IF ok[5] THEN Append(dphi, x[5].v) ELSE dphi
                      /\ IF ok[5] THEN UNCHANGED <<pc, exc>> ELSE Raise("ValueError")
    /\ UNCHANGED <<readSecond, delLast>>
    /\ UNCHANGED sip256Vars

\* line 163-172: pop(0) of an empty list is an IndexError
CloseAndReturn ==
    /\ pc = "close"
    /\ IF delLast
       THEN IF fr = <<>>
            THEN Raise("IndexError") /\ UNCHANGED <<fr, rhoa, phi, drhoa, dphi>>
            ELSE /\ fr' = Tail(fr) /\ rhoa' = Tail(rhoa) /\ phi' = Tail(phi)
                 /\ drhoa' = Tail(drhoa) /\ dphi' = Tail(dphi)
                 /\ pc' = "returned" /\ exc' = exc
       ELSE pc' = "returned" /\ UNCHANGED <<exc, fr, rhoa, phi, drhoa, dphi>>
    /\ UNCHANGED <<line, f, readSecond, delLast, eofReads>>
    /\ UNCHANGED sip256Vars

\* line 134 and 136-140, for every choice of the two flags
InitFuchs ==
    /\ pc = "skip" /\ exc = "" /\ line = "" /\ f = <<>>
    /\ readSecond \in BOOLEAN /\ delLast \in BOOLEAN
    /\ fr = <<>> /\ rhoa = <<>> /\ phi = <<>> /\ drhoa = <<>> /\ dphi = <<>>
    /\ eofReads = 0
    /\ activeBlock = "" /\ header = EmptyDict /\ LINE = <<>> /\ dataAct = FALSE
    /\ idx = 0
    /\ DATA = <<>> /\ Data = <<>> /\ data = <<>>
    /\ AB = <<>> /\ RU = <<>> /\ ru = <<>>
    /\ rdno = 0 /\ rdnoBound = FALSE /\ sline = <<>>

NextFuchs ==
    \/ SkipFirst
    \/ SeekFreq
    \/ SeekSecond
    \/ ReadRow
    \/ CloseAndReturn

\* a call of readRadicSIPFuchs
SpecFuchs == InitFuchs /\ [][NextFuchs]_vars

\* C1: for a data section of R >= 1 readings numbered 1..R, each with U >= 1
\* 'Remote Unit' lines, each with K >= 1 well-separated sample rows, the call
\* returns with len(DATA) = R, every DATA[i] holding U matrices of K rows of
\* 5 fields, AB holding the R electrode pairs in order, and RU holding R
\* entries, each the unit ids of that reading in order.
C1_Reconstruction ==
    \A R, U, K \in 1..MaxDataLines :
        (Finished /\ dataAct /\ WellFormedSection(R, U, K)) =>
            /\ pc = "returned"
            /\ Len(DATA) = R
            /\ \A j \in 1..R :
                  /\ Len(DATA[j]) = U
                  /\ \A u \in 1..U :
                        /\ Len(DATA[j][u]) = K
                        /\ \A k \in 1..K : DATA[j][u][k] = GoodRowValue
            /\ Len(AB) = R
            /\ \A j \in 1..R : AB[j] = ReadingPair(LINE[ReadingPos(j, U, K)])
            /\ Len(RU) = R
            /\ \A j \in 1..R :
                  RU[j] = [u \in 1..U |-> UnitId(LINE[UnitPos(j, u, U, K)])]

\* the distinct non-zero reading numbers written in LINE
NonZeroReadings ==
    {ReadingNumber(LINE[i]) : i \in {n \in 1..Len(LINE) : LINE[n] \in ReadingLines}}
        \ {0}

\* C2: in every result the outer length of DATA is the number of distinct
\* non-zero-numbered readings of the data section, RU has one entry per
\* reading and DATA[i] holds as many matrices as RU[i] holds unit ids.
C2_DataSetInvariant ==
    (pc = "returned" /\ dataAct) =>
        /\ Len(DATA) = Cardinality(NonZeroReadings)
        /\ Len(RU) = Len(DATA)
        /\ \A i \in 1..Len(DATA) : Len(DATA[i]) = Len(RU[i])

\* C3: at the end of the input every non-empty accumulator has been flushed:
\* the pending sample rows are the last matrix of the last reading of DATA
\* and the pending remote-unit ids are the last entry of RU.
C3_EndOfInputFlush ==
    pc = "returned" =>
        /\ data # <<>> => Last(Last(DATA)) = data
        /\ ru # <<>> => (RU # <<>> /\ Last(RU) = ru)

\* C4: a file with no data-section marker (data capture never entered) ends
\* the call with a FormatError: no result, empty or partial, is returned
\* for it.
C4_MissingMarkerIsFormatError ==
    pc = "returned" => dataAct

\* C5: a block still open at the end of the input aborts the call with a
\* FormatError: no result is returned while activeBlock names a block.
C5_UnterminatedBlockIsFormatError ==
    pc = "returned" => activeBlock = ""

\* the lines of DataLines that are neither Reading, 'Remote Unit' nor 'Freq'
\* lines, have more than one token and need no repair, with their tokens
PlainRowTokens(l) ==
    CASE l = "10.0 1.0 2.0 3.0 4.0\n" -> 5
      [] l = "10.0 1.0 2.0 3.0 4.0 0.5\n" -> 6
      [] l = "1.0 2.0\n" -> 2

PlainRows == {"10.0 1.0 2.0 3.0 4.0\n", "10.0 1.0 2.0 3.0 4.0 0.5\n", "1.0 2.0\n"}

\* C6: a sample line (more than one token, reading number > 0) whose token
\* sequence has at least 5 tokens appends exactly one SampleRow of its first
\* 5 tokens and the pass continues; one with fewer than 5 tokens aborts the
\* call and appends nothing.
C6_SampleRowHandling ==
    [][ (pc = "data" /\ idx <= Len(LINE) /\ rdnoBound /\ rdno > 0)
        => (LINE[idx] \in PlainRows
            => IF PlainRowTokens(LINE[idx]) >= 5
               THEN pc' = "data" /\ data' = Append(data, GoodRowValue)
               ELSE pc' = "raised" /\ data' = data) ]_vars

\* C7: in every result each header value is a number or a finalized 2-D
\* matrix; none is left as an open row list.
C7_HeaderTyping ==
    pc = "returned" =>
        \A k \in DOMAIN header :
            \/ header[k].kind \in {"int", "float"}
            \/ header[k].kind = "array" /\ header[k].ndim = 2

\* the Begin marker lines of HeaderLines and the normalized block name X
\* each one announces
BeginLines == {"[Begin Setup]\n", "[Begin Layout 1]\n", "[Begin]\n", "[Begin Messdaten]\n"}

AnnouncedName(l) ==
    CASE l = "[Begin Setup]\n" -> "Setup"
      [] l = "[Begin Layout 1]\n" -> "Layout_1"
      [] l = "[Begin]\n" -> ""
      [] l = "[Begin Messdaten]\n" -> "Messdaten"

EndLines == {"[End Setup]\n"}

\* the numeric rows of HeaderLines and the numbers written on them
RowLines == {"1.0 2.0\n", "3.0\n"}

RowNumbers(l) ==
    CASE l = "1.0 2.0\n" -> << [m |-> 1, e |-> 0], [m |-> 2, e |-> 0] >>
      [] l = "3.0\n" -> << [m |-> 3, e |-> 0] >>

\* the lines of HeaderLines that switch data capture on
DataMarkers == {MarkerLine, "[Begin Messdaten]\n"}

\* the file read so far ends with a block: a Begin line at position b that
\* the header pass reads, N >= 1 numeric rows of equal width, and an End
\* line, which is the line just read
BlockAt(b) ==
    /\ b + 1 < Len(f)
    /\ \A i \in 1..(b - 1) : f[i] \notin DataMarkers
    /\ f[b] \in BeginLines
    /\ \A i \in (b + 1)..(Len(f) - 1) : f[i] \in RowLines
    /\ \A i, j \in (b + 1)..(Len(f) - 1) : Len(RowNumbers(f[i])) = Len(RowNumbers(f[j]))
    /\ Last(f) \in EndLines

\* the rows of the block that starts at b, as a matrix
BlockRows(b) == [i \in 1..(Len(f) - b - 1) |-> RowNumbers(f[b + i])]

\* the End line of the block that starts at b left the header pass in state
\* Idle with header[X] the N x W matrix of the block's rows
BlockStored(b) ==
    /\ pc = "header"
    /\ activeBlock = ""
    /\ AnnouncedName(f[b]) \in DOMAIN header
    /\ header[AnnouncedName(f[b])] = ArrayValue(2, BlockRows(b))

C9_DataCaptureLatch ==
    [][ /\ dataAct => /\ dataAct'
                      /\ header' = header
                      /\ activeBlock' = activeBlock
                      /\ LINE' = IF f' # f THEN Append(LINE, Last(f')) ELSE LINE
        /\ (~dataAct /\ dataAct') => (LINE' = <<>> /\ Last(f') \in DataMarkers)
      ]_vars

\* marker lines have been buffered behind the data-section marker
C9_Witness ==
    /\ dataAct
    /\ Len(LINE) >= 2
    /\ LINE[1] = "[End Setup]\n"
    /\ LINE[2] = "[Begin Setup]\n"
    /\ DOMAIN header = {"Key"}

\* C10: an End marker line read while no block is open is an error: the
\* call is aborted and no header entry is stored or converted.
C10_EndWhileIdleIsError ==
    [][ (/\ pc = "header" /\ ~dataAct /\ activeBlock = ""
         /\ f' # f /\ Last(f') \in EndLines)
        => (pc' = "raised" /\ header' = header) ]_vars

\* C11: the unit list of a reading is appended to DATA by a Reading line
\* whose number is greater than the previous reading's number (also when the
\* finished reading had a single remote unit), and by no other line of the
\* data section: not by a Reading line whose number does not exceed the
\* previous one, and not by any other line.
C11_ReadingFlushTiming ==
    [][ (pc = "data" /\ idx <= Len(LINE) /\ pc' = "data")
        => IF LINE[idx] \in ReadingLines /\ rdnoBound
           THEN IF ReadingNumber(LINE[idx]) > rdno
                THEN (ru # <<>> /\ (Data # <<>> \/ data # <<>>))
                        => Len(DATA') = Len(DATA) + 1
                ELSE DATA' = DATA
           ELSE DATA' = DATA ]_vars

\* the sample row of SpecRepair has been handled by the data pass
RowHandled == pc \in {"data", "returned", "raised"} /\ idx = 3

\* the sample row of SpecRepair has been handled without an exception
RowRepaired == pc \in {"data", "returned"} /\ idx = 3

\* the tokens of the sample row as they stand in the file
RawTokens == Split(LINE[2])

\* a minus sign follows a digit somewhere in the row
HasDigitMinus == \E i \in 1..Len(RawTokens) : RawTokens[i] = "1.2-3.5"

RECURSIVE SplitByRule(_, _)
\* the length rule as the claim states it, from position c on: a token of the
\* first column longer than 15 characters, or of another column longer than
\* 10, is replaced by its remainder and its last 15, or 10, characters; the
\* inserted token is not examined again
SplitByRule(toks, c) ==
    IF c >= 6 \/ c >= Len(toks) THEN toks
    ELSE LET w == IF c = 0 THEN 15 ELSE 10
             t == toks[c + 1]
         IN  IF Len(t) > w
             THEN SplitByRule(SubSeq(toks, 1, c)
                                \o <<SubSeq(t, 1, Len(t) - w), SubSeq(t, Len(t) - w + 1, Len(t))>>
                                \o SubSeq(toks, c + 2, Len(toks)), c + 2)
             ELSE SplitByRule(toks, c + 1)

\* C12: in a repaired sample row a token of the first column has been split
\* iff it was longer than 15 characters (remainder + last 15) and a token of
\* another column iff it was longer than 10 characters (remainder + last 10),
\* the new token standing right after the original position.
C12_SplitThresholds ==
    (RowRepaired /\ ~HasDigitMinus) => sline = SplitByRule(RawTokens, 0)

RECURSIVE Concat(_)
\* the characters of a token list, in order
Concat(toks) == IF Len(toks) = 0 THEN "" ELSE toks[1] \o Concat(Tail(toks))

\* C13: the repaired token list has at least as many tokens as the raw one
\* and holds every character of the raw tokens, in order; the digit that
\* precedes a minus sign is neither altered nor dropped.
C13_RepairLosesNothing ==
    RowRepaired =>
        /\ Len(sline) >= Len(RawTokens)
        /\ Concat(sline) = Concat(RawTokens)

\* no minus follows a digit, the first token has at most 15 characters and
\* every other token at most 10
WellSeparated ==
    /\ ~HasDigitMinus
    /\ Len(RawTokens[1]) <= 15
    /\ \A i \in 2..Len(RawTokens) : Len(RawTokens[i]) <= 10

\* C14: a well-separated row of any length >= 2 is repaired without error
\* into the same token list, and repairing the result again changes nothing.
C14_RepairIdentity ==
    (RowHandled /\ WellSeparated) =>
        /\ pc # "raised"
        /\ sline = RawTokens
        /\ FieldRepair(RowLine(sline)) = [ok |-> TRUE, sline |-> sline]

\* the lines of LINE handled so far by the data pass
Handled == idx - 1

RECURSIVE PairsUpTo(_)
\* the pairs a reader of LINE[1..k] writes down: one per Reading line with
\* a non-zero number, in file order
PairsUpTo(k) ==
    IF k = 0 THEN <<>>
    ELSE IF LINE[k] \in ReadingLines /\ ReadingNumber(LINE[k]) # 0
    THEN Append(PairsUpTo(k - 1), ReadingPair(LINE[k]))
    ELSE PairsUpTo(k - 1)

\* C15: after any sequence of data-section lines AB holds exactly one pair
\* (A, B) per Reading line with a non-zero number, in file order, taken from
\* the 5th and 7th token; Reading lines numbered 0 and all other lines leave
\* AB as it is.
C15_ElectrodePairs ==
    (pc \in {"data", "returned"} /\ idx >= 1) => AB = PairsUpTo(Handled)

\* two numbered readings around a reading numbered 0 have been handled
C15_Witness ==
    /\ pc = "returned"
    /\ Len(LINE) = 4
    /\ LINE[1] = "Reading 1 : A 3 B 5\n"
    /\ LINE[2] = "Reading 0 : A 1 B 2\n"
    /\ LINE[3] = "1.0 2.0\n"
    /\ LINE[4] = "Reading 2 : A 4 B 6\n"
    /\ AB = << <<3, 5>>, <<4, 6>> >>

\* the header marker lines of HeaderLines whose value is not a number
BadScalarLines == {"[Key] x\n"}

\* C16: a header marker line that is neither End, Begin nor data marker and
\* whose value is not a number leaves the header mapping, the open block and
\* the data-capture flag unchanged and does not abort the call; nothing but
\* the record of lines read changes, so the following lines are handled as
\* if the line had been absent.
C16_ScalarFailureSkipped ==
    [][ (/\ pc = "header" /\ ~dataAct
         /\ f' # f /\ Last(f') \in BadScalarLines)
        => /\ pc' = "header" /\ exc' = exc
           /\ header' = header
           /\ activeBlock' = activeBlock
           /\ dataAct' = dataAct
           /\ LINE' = LINE ]_vars

\* a row was stored in the block that was open when the line was skipped
C16_Witness ==
    /\ pc = "header"
    /\ f = <<"[Begin Setup]\n", "[Key] x\n", "1.0 2.0\n">>
    /\ activeBlock = "Setup"
    /\ DOMAIN header = {"Setup"}
    /\ Len(header["Setup"].val) = 1

RECURSIVE PendingUnits(_)
\* the unit ids on the 'Remote Unit' lines of LINE[1..k] that follow the
\* last Reading line
PendingUnits(k) ==
    IF k = 0 \/ LINE[k] \in ReadingLines THEN <<>>
    ELSE IF LINE[k] \in UnitLines
    THEN Append(PendingUnits(k - 1), UnitId(LINE[k]))
    ELSE PendingUnits(k - 1)

RECURSIVE UnitGroups(_)
\* the non-empty groups of unit ids of LINE[1..k] closed by a Reading line
UnitGroups(k) ==
    IF k = 0 THEN <<>>
    ELSE IF LINE[k] \in ReadingLines /\ PendingUnits(k - 1) # <<>>
    THEN Append(UnitGroups(k - 1), PendingUnits(k - 1))
    ELSE UnitGroups(k - 1)

\* C17: a unit id is appended to the accumulator of the reading it appears
\* in; at every Reading line a non-empty accumulator is appended to RU and
\* the accumulator is reset, so no entry of RU holds unit ids that were read
\* under two different Reading lines.
C17_RemoteUnitScoping ==
    (pc \in {"data", "returned"} /\ idx >= 1)
        => /\ ru = PendingUnits(Handled)
           /\ RU = UnitGroups(Handled)

\* a group of two units was closed by a Reading line and a unit follows it
C17_Witness ==
    /\ pc = "returned"
    /\ RU = << <<1, 2>> >>
    /\ ru = <<1>>

\* the lines of DataLines that are neither Reading, 'Remote Unit' nor 'Freq'
\* lines
OtherLines ==
    {"10.0 1.0 2.0 3.0 4.0\n", "10.0 1.0 2.0 3.0 4.0 0.5\n", "1.0 2.0\n", "\n"}

\* C18: a data-section line that is not a Reading, 'Remote Unit' or 'Freq'
\* line and is handled before any Reading line was seen, or while the current
\* reading number is 0, changes none of the accumulators or output lists and
\* raises no error.
C18_NoActiveReadingIgnored ==
    [][ (/\ pc = "data" /\ idx <= Len(LINE)
         /\ LINE[idx] \in OtherLines
         /\ (~rdnoBound \/ rdno = 0))
        => /\ pc' = "data"
           /\ UNCHANGED <<DATA, Data, data, AB, RU, ru>> ]_vars

\* position of the Reading line the line at position i stands under, 0 if
\* none precedes it
ReadingBefore(i) ==
    LET before == {j \in 1..(i - 1) : LINE[j] \in ReadingLines}
    IN  IF before = {} THEN 0 ELSE CHOOSE j \in before : \A k \in before : k <= j

\* positions of the lines of LINE that stand under a Reading line with a
\* number > 0 and have more than one token: the sample rows of the file
SampledPos ==
    {i \in 1..Len(LINE) :
        /\ LINE[i] \in OtherLines \ {"\n"}
        /\ ReadingBefore(i) > 0
        /\ ReadingNumber(LINE[ReadingBefore(i)]) > 0}

\* the rows of the result: row r of matrix b of unit list a
ResultRows ==
    {t \in (1..Len(DATA)) \X (1..(Len(LINE) + 1)) \X (1..Len(LINE)) :
        /\ t[2] <= Len(DATA[t[1]])
        /\ t[3] <= Len(DATA[t[1]][t[2]])}

\* t comes before u in the result
RowBefore(t, u) ==
    \/ t[1] < u[1]
    \/ t[1] = u[1] /\ t[2] < u[2]
    \/ t[1] = u[1] /\ t[2] = u[2] /\ t[3] < u[3]

\* the Reading line of the file under which the row t of the result was read:
\* rows are stored in file order, so the n-th row of the result is the n-th
\* sample row of the file
OwnerOf(t) ==
    LET n == Cardinality({u \in ResultRows : RowBefore(u, t)}) + 1
        i == CHOOSE p \in SampledPos : Cardinality({q \in SampledPos : q <= p}) = n
    IN  ReadingBefore(i)

\* C19: in every result no sample matrix holds rows that were read under two
\* different Reading lines, and no unit list DATA[i] holds matrices of two
\* different readings: the rows of one unit list, and so of one matrix, were
\* all read under Reading lines that carry the same number.
C19_NoCrossReadingMixing ==
    pc = "returned" =>
        /\ Cardinality(ResultRows) = Cardinality(SampledPos)
        /\ \A t, u \in ResultRows :
              t[1] = u[1] =>
                  ReadingNumber(LINE[OwnerOf(t)]) = ReadingNumber(LINE[OwnerOf(u)])

\* C20: readRadicSIPFuchs ends on every finite file: no readline() that
\* finds the file exhausted leaves the call where it was with every variable
\* as it was, which is a step the call would then repeat for ever.
C20_FuchsTerminates ==
    [][ ~ (/\ eofReads' > eofReads
           /\ pc' = pc
           /\ line' = line
           /\ UNCHANGED <<f, exc, fr, rhoa, phi, drhoa, dphi>>) ]_vars

====
